---- MODULE Spec2Model ----
(***************************************************************************)
(* suola: per-domain URL canonicalisation and SHA-256 signature pipeline   *)
(* (lib: LoadRules, normalizeURL, extractFields, formatURL, processURL,    *)
(* generateSignature, GetSignature), its JS bindings (hashUrl) and the     *)
(* WASI boundary (Malloc, Free, ptrToString, stringToPtr, GetSignature).   *)
(*                                                                         *)
(* Representation.  A string is a sequence of one-character strings.  A    *)
(* URL string is held by its syntactic parts (scheme, host, port, path     *)
(* segments, query pairs, fragment length), which is what net/url.Parse    *)
(* makes of it.  A pattern of the rule set is a sequence of path-segment   *)
(* elements, each a literal or a named group (?P<Name>[^/]+), with a       *)
(* leading "/" before every element; a template is a sequence of literal   *)
(* pieces and {{ .Field }} placeholders.                                   *)
(***************************************************************************)
EXTENDS Integers, Sequences, FiniteSets, TLC

VARIABLES
    Rules,        \* lib: var Rules *Config, the published rule set
    status,       \* "start" | "ready" | "panicked" | "exited": the module's life
    ret,          \* what the last call returned to its caller
    memoryArena,  \* wasi: var memoryArena sync.Map, address -> len of the retained buffer
    heap,         \* linear memory: address -> the bytes of the buffer placed there
    pin,          \* the first GetSignature call on a written buffer, kept to compare with
    calls,        \* caller -> the call it has in flight and the statement it is at
    delivered     \* addresses handed to the host by a returned call and not released since

vars == <<Rules, status, ret, memoryArena, heap, pin, calls, delivered>>

(***************************************************************************)
(* Strings                                                                 *)
(***************************************************************************)
UpperChars == <<"A","B","C","D","E","F","G","H","I","J","K","L","M","N","O","P","Q","R","S","T","U","V","W","X","Y","Z">>
LowerChars == <<"a","b","c","d","e","f","g","h","i","j","k","l","m","n","o","p","q","r","s","t","u","v","w","x","y","z">>

\* The characters of the model's strings, in byte order (sort.Strings order).
CharOrder == <<"#","%","-",".","/","0","1","2","3","4","5","6","7","8","9",":","=","?">>
                 \o UpperChars \o LowerChars

CharCode(c) == CHOOSE i \in 1..Len(CharOrder) : CharOrder[i] = c

ToLowerChar(c) ==
    IF \E i \in 1..Len(UpperChars) : UpperChars[i] = c
    THEN LowerChars[CHOOSE i \in 1..Len(UpperChars) : UpperChars[i] = c]
    ELSE c

\* strings.ToLower
ToLower(s) == [i \in 1..Len(s) |-> ToLowerChar(s[i])]

\* strings.HasSuffix: a plain byte-wise suffix test
HasSuffix(s, suffix) ==
    /\ Len(s) >= Len(suffix)
    /\ SubSeq(s, Len(s) - Len(suffix) + 1, Len(s)) = suffix

HasPrefix(s, prefix) ==
    /\ Len(s) >= Len(prefix)
    /\ SubSeq(s, 1, Len(prefix)) = prefix

RECURSIVE StrLess(_, _)
\* a < b in byte-wise lexicographic order
StrLess(a, b) ==
    IF b = <<>> THEN FALSE
    ELSE IF a = <<>> THEN TRUE
    ELSE IF a[1] # b[1] THEN CharCode(a[1]) < CharCode(b[1])
    ELSE StrLess(Tail(a), Tail(b))

EmptyMap == [x \in {} |-> <<>>]

\* The element of a one-element set.
Only(S) == CHOOSE x \in S : TRUE

(***************************************************************************)
(* URLs                                                                    *)
(***************************************************************************)
\* valid says whether url.Parse accepts the string; frag counts the bytes
\* of the string that belong to no other part (the fragment, or the bytes
\* url.Parse rejects).
\* The URL string "": what ptrToString returns when it refuses to read.
EmptyURL ==
    [scheme |-> <<>>, host |-> <<>>, port |-> <<>>, path |-> <<>>,
     query |-> <<>>, frag |-> 0, valid |-> TRUE]

RECURSIVE SumLen(_)
SumLen(ss) == IF ss = <<>> THEN 0 ELSE 1 + Len(ss[1]) + SumLen(Tail(ss))

RECURSIVE QueryLen(_)
QueryLen(q) ==
    IF q = <<>> THEN 0
    ELSE 1 + Len(q[1][1]) + 1 + Len(q[1][2]) + QueryLen(Tail(q))

\* len(url): the number of bytes of the URL string
URLBytes(u) ==
    (IF u.scheme = <<>> THEN 0 ELSE Len(u.scheme) + 3)
    + Len(u.host)
    + (IF u.port = <<>> THEN 0 ELSE 1 + Len(u.port))
    + SumLen(u.path) + QueryLen(u.query) + u.frag

\* parsed.Hostname(): the authority without its port
HostnameOf(u) == u.host

\* parsed.Host: the authority, the port included when there is one
HostOf(u) == IF u.port = <<>> THEN u.host ELSE u.host \o <<":">> \o u.port

(***************************************************************************)
(* Errors and results                                                      *)
(***************************************************************************)
NoError == [kind |-> "nil", arg |-> <<>>, n |-> 0]

\* url.Parse: parse "<url>": invalid URL escape "%zz" (or another reason)
ParseError(u) == [kind |-> "ParseError", arg |-> <<>>, n |-> URLBytes(u)]

\* fmt.Errorf("no matching rule found for host %s", host)
NoMatch(host) == [kind |-> "NoMatch", arg |-> host, n |-> 0]

\* fmt.Errorf("no fields extracted from URL: %s", u.String())
NoFields(u) == [kind |-> "NoFields", arg |-> <<>>, n |-> URLBytes(u)]

\* len(err.Error())
ErrLen(e) ==
    CASE e.kind = "NoMatch"    -> 32 + Len(e.arg)
      [] e.kind = "NoFields"   -> 31 + e.n
      [] e.kind = "ParseError" -> 35 + e.n
      [] OTHER                 -> 0

(***************************************************************************)
(* normalizeURL: purell.NormalizeURLString(raw, FlagsSafe |                *)
(*               FlagRemoveDotSegments | FlagSortQuery)                    *)
(***************************************************************************)
Dot    == <<".">>
DotDot == <<".", ".">>

RECURSIVE DotFree(_, _)
\* purell removeDotSegments: the loop over the sections of the path
DotFree(segs, acc) ==
    IF segs = <<>> THEN acc
    ELSE IF segs[1] = DotDot
         THEN DotFree(Tail(segs), IF acc = <<>> THEN acc ELSE SubSeq(acc, 1, Len(acc) - 1))
    ELSE IF segs[1] = Dot THEN DotFree(Tail(segs), acc)
    ELSE DotFree(Tail(segs), Append(acc, segs[1]))

RemoveDotSegments(path) ==
    IF path = <<>> THEN path
    ELSE LET r == DotFree(path, <<>>)
             lastIsDot == path[Len(path)] \in {Dot, DotDot}
         IN  IF r = <<>> THEN << <<>> >>
             ELSE IF lastIsDot /\ r[Len(r)] # <<>> THEN Append(r, <<>>)
             ELSE r

PairLess(p, q) == StrLess(p[1], q[1]) \/ (p[1] = q[1] /\ StrLess(p[2], q[2]))

RECURSIVE InsertPair(_, _)
InsertPair(p, sorted) ==
    IF sorted = <<>> THEN <<p>>
    ELSE IF PairLess(p, sorted[1]) THEN <<p>> \o sorted
    ELSE <<sorted[1]>> \o InsertPair(p, Tail(sorted))

RECURSIVE SortQuery(_)
\* purell sortQuery: keys in sort.Strings order, the values of a key sorted
SortQuery(q) == IF q = <<>> THEN q ELSE InsertPair(q[1], SortQuery(Tail(q)))

S_http  == <<"h","t","t","p">>
S_https == <<"h","t","t","p","s">>
S_80    == <<"8","0">>
S_443   == <<"4","4","3">>

\* purell removeDefaultPort
RemoveDefaultPort(scheme, port) ==
    IF (scheme = S_http /\ port = S_80) \/ (scheme = S_https /\ port = S_443)
    THEN <<>> ELSE port

\* a normalisation without purell.FlagSortQuery (the flags of src/main.go:91)
normalizeURLKeepQueryOrder(rawURL) ==
    IF ~rawURL.valid THEN [url |-> EmptyURL, err |-> ParseError(rawURL)]
    ELSE [url |-> [scheme |-> ToLower(rawURL.scheme),
                   host   |-> ToLower(rawURL.host),
                   port   |-> RemoveDefaultPort(ToLower(rawURL.scheme), rawURL.port),
                   path   |-> RemoveDotSegments(rawURL.path),
                   query  |-> rawURL.query,
                   frag   |-> rawURL.frag,
                   valid  |-> TRUE],
          err |-> NoError]

normalizeURL(rawURL) ==
    IF ~rawURL.valid THEN [url |-> EmptyURL, err |-> ParseError(rawURL)]
    ELSE [url |-> [scheme |-> ToLower(rawURL.scheme),
                   host   |-> ToLower(rawURL.host),
                   port   |-> RemoveDefaultPort(ToLower(rawURL.scheme), rawURL.port),
                   path   |-> RemoveDotSegments(rawURL.path),
                   query  |-> SortQuery(rawURL.query),
                   frag   |-> rawURL.frag,
                   valid  |-> TRUE],
          err |-> NoError]

(***************************************************************************)
(* regexp: a compiled pattern is a sequence of elements; element k is      *)
(* "/" followed by a literal (group = "") or by (?P<group>[^/]+).          *)
(***************************************************************************)
Lit(s)   == [lit |-> s, group |-> ""]
Group(n) == [lit |-> <<>>, group |-> n]

\* Element e, the last of its pattern or not, against one path segment.  The
\* pattern is not anchored: a trailing literal matches a prefix of its segment.
ElemMatches(e, seg, last) ==
    IF e.group # "" THEN seg # <<>>
    ELSE IF last THEN HasPrefix(seg, e.lit)
    ELSE seg = e.lit

MatchAt(re, path, i) ==
    /\ i + Len(re) - 1 <= Len(path)
    /\ \A k \in 1..Len(re) : ElemMatches(re[k], path[i + k - 1], k = Len(re))

\* (*Regexp).MatchString: a match anywhere in the path
MatchString(re, path) == \E i \in 1..Len(path) : MatchAt(re, path, i)

\* (*Regexp).FindStringSubmatch: the leftmost match, by group name
FindStringSubmatch(re, path) ==
    LET i == CHOOSE j \in 1..Len(path) :
                 MatchAt(re, path, j) /\ \A h \in 1..(j - 1) : ~MatchAt(re, path, h)
        names == {re[k].group : k \in 1..Len(re)} \ {""}
    IN  [n \in names |-> path[i + (CHOOSE k \in 1..Len(re) : re[k].group = n) - 1]]

\* url.Values.Get: the first value of the key, "" when there is none
RECURSIVE QueryGet(_, _)
QueryGet(q, key) ==
    IF q = <<>> THEN <<>>
    ELSE IF q[1][1] = key THEN q[1][2]
    ELSE QueryGet(Tail(q), key)

(***************************************************************************)
(* Rule set: Config{Sites []SiteRule}, SiteRule{Domain, Templates},        *)
(* TemplateRule{Pattern, QueryParams, Template, Transform, _Regex,         *)
(* _Template}.  Pattern = <<>> is the absent pattern ("").                 *)
(***************************************************************************)
Text(s)  == [lit |-> s, field |-> ""]
Field(n) == [lit |-> <<>>, field |-> n]

\* A template rule as decoded from YAML; patternOK / templateOK say whether
\* regexp.Compile / template.Parse accept the source text.
TemplateRule(pattern, queryParams, template, transform) ==
    [Pattern |-> pattern, QueryParams |-> queryParams, Template |-> template,
     Transform |-> transform, patternOK |-> TRUE, templateOK |-> TRUE]

NoRegex == [nil |-> TRUE, elems |-> <<>>]

\* LoadRules, the body of the loop: one template rule compiled
Compile(rule) ==
    [Pattern |-> rule.Pattern, QueryParams |-> rule.QueryParams,
     Template |-> rule.Template, Transform |-> rule.Transform,
     _Template |-> rule.Template,
     _Regex |-> IF rule.Pattern # <<>> THEN [nil |-> FALSE, elems |-> rule.Pattern]
                ELSE NoRegex]

CompileSite(site) ==
    [Domain |-> site.Domain,
     Templates |-> [j \in 1..Len(site.Templates) |-> Compile(site.Templates[j])]]

\* LoadRules with every error return dropped: whatever was compiled is published
LoadRulesUnchecked(cfg) ==
    [ok |-> TRUE, sites |-> [i \in 1..Len(cfg) |-> CompileSite(cfg[i])]]

\* LoadRules: the outcome of decoding and compiling cfg; on an error nothing
\* is published.
LoadRules(cfg) ==
    IF \/ \E i \in 1..Len(cfg) : ~cfg[i].decodeOK
       \/ \E i \in 1..Len(cfg) : \E j \in 1..Len(cfg[i].Templates) :
           \/ ~cfg[i].Templates[j].templateOK
           \/ (cfg[i].Templates[j].Pattern # <<>> /\ ~cfg[i].Templates[j].patternOK)
    THEN [ok |-> FALSE, sites |-> <<>>]
    ELSE [ok |-> TRUE, sites |-> [i \in 1..Len(cfg) |-> CompileSite(cfg[i])]]

(***************************************************************************)
(* extractFields                                                           *)
(***************************************************************************)
\* Extract using regex: every named, non-empty capture
RegexFields(u, rule) ==
    IF rule._Regex.nil \/ ~MatchString(rule._Regex.elems, u.path) THEN EmptyMap
    ELSE LET m == FindStringSubmatch(rule._Regex.elems, u.path)
         IN  [n \in {x \in DOMAIN m : m[x] # <<>>} |-> m[n]]

\* Extract using query parameters: fields[field] = val, unconditionally
QueryFieldsFallback(u, rule, fields) ==
    LET hit == {f \in DOMAIN rule.QueryParams :
                    QueryGet(u.query, rule.QueryParams[f]) # <<>>}
    IN  [n \in (DOMAIN fields) \cup hit |->
            IF n \in DOMAIN fields THEN fields[n]
            ELSE QueryGet(u.query, rule.QueryParams[n])]

QueryFields(u, rule, fields) ==
    LET hit == {f \in DOMAIN rule.QueryParams :
                    QueryGet(u.query, rule.QueryParams[f]) # <<>>}
    IN  [n \in (DOMAIN fields) \cup hit |->
            IF n \in hit THEN QueryGet(u.query, rule.QueryParams[n])
            ELSE fields[n]]

\* Apply transformations (e.g., lowercase)
ApplyTransformNone(rule, fields) == fields

ApplyTransform(rule, fields) ==
    [n \in DOMAIN fields |->
        IF n \in DOMAIN rule.Transform /\ rule.Transform[n] = "lowercase"
        THEN ToLower(fields[n]) ELSE fields[n]]

\* extractFields with the transform loop placed before the query loop
extractFieldsTransformFirst(u, rule) ==
    Only({ IF DOMAIN fields = {} THEN [fields |-> EmptyMap, err |-> NoFields(u)]
           ELSE [fields |-> fields, err |-> NoError]
           : fields \in {QueryFields(u, rule, ApplyTransform(rule, RegexFields(u, rule)))} })

extractFields(u, rule) ==
    Only({ IF DOMAIN fields = {} THEN [fields |-> EmptyMap, err |-> NoFields(u)]
           ELSE [fields |-> fields, err |-> NoError]
           : fields \in {ApplyTransform(rule, QueryFields(u, rule, RegexFields(u, rule)))} })

(***************************************************************************)
(* formatURL: text/template Execute over a map[string]string; a key the    *)
(* map lacks yields the element type's zero value, "".                     *)
(***************************************************************************)
RECURSIVE Execute(_, _)
Execute(pieces, fields) ==
    IF pieces = <<>> THEN <<>>
    ELSE (IF pieces[1].field = "" THEN pieces[1].lit
          ELSE IF pieces[1].field \in DOMAIN fields THEN fields[pieces[1].field]
          ELSE <<>>)
         \o Execute(Tail(pieces), fields)

\* fmt.Errorf("executing template: %w", err)
RenderError == [kind |-> "RenderError", arg |-> <<>>, n |-> 0]

\* formatURL over a template parsed with Option("missingkey=error")
formatURLMissingKeyError(u, rule, fields) ==
    IF \E k \in 1..Len(rule._Template) :
           rule._Template[k].field # "" /\ rule._Template[k].field \notin DOMAIN fields
    THEN [url |-> <<>>, err |-> RenderError]
    ELSE [url |-> Execute(rule._Template, fields), err |-> NoError]

\* formatURL: Execute on a map[string]string, which gives "" for a missing key
formatURL(u, rule, fields) == [url |-> Execute(rule._Template, fields), err |-> NoError]

(***************************************************************************)
(* processURL.  site and tmpl name the iteration of the two loops at which *)
(* the function returned (0, 0 when it fell through to the last line).     *)
(***************************************************************************)
\* a test that only a compiled pattern can pass
ruleMatchesPatternOnly(rule, parsed) ==
    ~rule._Regex.nil /\ MatchString(rule._Regex.elems, parsed.path)

\* processURL: rule._Regex == nil || rule._Regex.MatchString(parsed.Path)
ruleMatches(rule, parsed) ==
    rule._Regex.nil \/ MatchString(rule._Regex.elems, parsed.path)

RECURSIVE ScanTemplatesLast(_, _, _, _)
ScanTemplatesLast(parsed, site, i, j) ==
    IF j > Len(site.Templates)
    THEN [found |-> FALSE, url |-> <<>>, err |-> NoError, site |-> 0, tmpl |-> 0]
    ELSE LET rule == site.Templates[j]
             rest == ScanTemplatesLast(parsed, site, i, j + 1)
             e    == extractFields(parsed, rule)
         IN  IF rest.found THEN rest
             ELSE IF (rule._Regex.nil \/ MatchString(rule._Regex.elems, parsed.path))
                     /\ e.err = NoError
             THEN [found |-> TRUE, url |-> formatURL(parsed, rule, e.fields).url,
                   err |-> NoError, site |-> i, tmpl |-> j]
             ELSE rest

RECURSIVE ScanTemplatesStopOnEmpty(_, _, _, _)
\* the loop over the templates leaving the site at the first template that
\* matches and extracts nothing
ScanTemplatesStopOnEmpty(parsed, site, i, j) ==
    IF j > Len(site.Templates)
    THEN [found |-> FALSE, url |-> <<>>, err |-> NoError, site |-> 0, tmpl |-> 0]
    ELSE LET rule == site.Templates[j]
         IN  IF rule._Regex.nil \/ MatchString(rule._Regex.elems, parsed.path)
             THEN Only({ IF e.err # NoError
                         THEN [found |-> FALSE, url |-> <<>>, err |-> NoError,
                               site |-> 0, tmpl |-> 0]
                         ELSE LET f == formatURL(parsed, rule, e.fields)
                              IN  [found |-> TRUE, url |-> f.url, err |-> f.err,
                                   site |-> i, tmpl |-> j]
                         : e \in {extractFields(parsed, rule)} })
             ELSE ScanTemplatesStopOnEmpty(parsed, site, i, j + 1)

RECURSIVE ScanTemplates(_, _, _, _)
\* for _, rule := range site.Templates, from template j on
ScanTemplates(parsed, site, i, j) ==
    IF j > Len(site.Templates)
    THEN [found |-> FALSE, url |-> <<>>, err |-> NoError, site |-> 0, tmpl |-> 0]
    ELSE LET rule == site.Templates[j]
         IN  IF ruleMatches(rule, parsed)
             THEN Only({ IF e.err # NoError
                         THEN ScanTemplates(parsed, site, i, j + 1)   \* continue
                         ELSE LET f == formatURL(parsed, rule, e.fields)
                              IN  [found |-> TRUE, url |-> f.url, err |-> f.err,
                                   site |-> i, tmpl |-> j]
                         : e \in {extractFields(parsed, rule)} })
             ELSE ScanTemplates(parsed, site, i, j + 1)

RECURSIVE ScanSitesFirstOnly(_, _, _, _)
ScanSitesFirstOnly(parsed, host, sites, i) ==
    IF i > Len(sites)
    THEN [found |-> FALSE, url |-> <<>>, err |-> NoMatch(host), site |-> 0, tmpl |-> 0]
    ELSE IF HasSuffix(host, sites[i].Domain)
         THEN LET r == ScanTemplates(parsed, sites[i], i, 1)
              IN  IF r.found THEN r
                  ELSE [found |-> FALSE, url |-> <<>>, err |-> NoMatch(host),
                        site |-> 0, tmpl |-> 0]
         ELSE ScanSitesFirstOnly(parsed, host, sites, i + 1)

RECURSIVE ScanSites(_, _, _, _)
\* for _, site := range Rules.Sites, from site i on
ScanSites(parsed, host, sites, i) ==
    IF i > Len(sites)
    THEN [found |-> FALSE, url |-> <<>>, err |-> NoMatch(host), site |-> 0, tmpl |-> 0]
    ELSE IF HasSuffix(host, sites[i].Domain)
         THEN Only({ IF r.found THEN r ELSE ScanSites(parsed, host, sites, i + 1)
                     : r \in {ScanTemplates(parsed, sites[i], i, 1)} })
         ELSE ScanSites(parsed, host, sites, i + 1)

processURL(sites, inputURL) ==
    Only({ IF norm.err # NoError
           THEN [found |-> FALSE, url |-> <<>>, err |-> norm.err, site |-> 0, tmpl |-> 0]
           ELSE \* parsed = url.Parse(normalizedURL), host = parsed.Host
                ScanSites(norm.url, HostOf(norm.url), sites, 1)
           : norm \in {normalizeURL(inputURL)} })

(***************************************************************************)
(* generateSignature: hex(sha256(input)), 64 lowercase hex characters.     *)
(* The digest is held as the term sha256(input); two signatures are equal  *)
(* exactly when their inputs are.                                          *)
(***************************************************************************)
SignatureLen == 64

\* The strings the pipeline hands back: a signature, an error's text, or "".
EmptyText  == [t |-> "empty", of |-> <<>>, e |-> NoError]
ErrText(e) == [t |-> "err", of |-> <<>>, e |-> e]

generateSignatureOfArena(input) ==
    [t |-> "sig", of |-> <<input, DOMAIN memoryArena>>, e |-> NoError]

generateSignature(input) == [t |-> "sig", of |-> input, e |-> NoError]

\* len(s)
TextLen(s) ==
    CASE s.t = "sig" -> SignatureLen
      [] s.t = "err" -> ErrLen(s.e)
      [] OTHER       -> 0

\* lib GetSignature / getSignature(inputURL) (string, error)
getSignature(sites, inputURL) ==
    Only({ IF p.err # NoError THEN [sig |-> EmptyText, err |-> p.err]
           ELSE [sig |-> generateSignature(p.url), err |-> NoError]
           : p \in {processURL(sites, inputURL)} })

(***************************************************************************)
(* Inputs: the strings, rule sets and URLs the calls are drawn from        *)
(***************************************************************************)
example_com      == <<"e","x","a","m","p","l","e",".","c","o","m">>
sub_example_com  == <<"s","u","b",".","e","x","a","m","p","l","e",".","c","o","m">>
notexample_com   == <<"n","o","t","e","x","a","m","p","l","e",".","c","o","m">>
news_example_com == <<"n","e","w","s",".","e","x","a","m","p","l","e",".","c","o","m">>
unknown_org      == <<"u","n","k","n","o","w","n",".","o","r","g">>
iltalehti_fi     == <<"i","l","t","a","l","e","h","t","i",".","f","i">>
Example_COM      == <<"E","x","a","m","p","l","e",".","C","O","M">>
S_HTTPS          == <<"H","T","T","P","S">>
S_8443           == <<"8","4","4","3">>
S_a              == <<"a">>
S_x              == <<"x">>
S_n              == <<"n">>
S_id             == <<"i","d">>
S_7              == <<"7">>
S_42             == <<"4","2">>
S_Q7             == <<"Q","7">>
S_News           == <<"N","e","w","s">>
S_Politiikka     == <<"P","o","l","i","t","i","i","k","k","a">>
S_politiikka     == <<"p","o","l","i","t","i","i","k","k","a">>
ArticleUUID      == <<"2","b","2","a","c","7","2","b","-","4","2","d","f","-","4","d","8","f","-","a","9","e","e","-","7","e","7","3","1","2","1","6","d","8","8","0">>
pfx_example      == <<"h","t","t","p","s",":","/","/","e","x","a","m","p","l","e",".","c","o","m","/">>
pfx_news         == <<"h","t","t","p","s",":","/","/","n","e","w","s",".","e","x","a","m","p","l","e",".","c","o","m","/">>
pfx_iltalehti    == <<"h","t","t","p","s",":","/","/","w","w","w",".","i","l","t","a","l","e","h","t","i",".","f","i","/">>

\* /(?P<Section>[^/]+)/a/(?P<ID>[^/]+) with query_params ID: id,
\* transform Section: lowercase
T_Article ==
    TemplateRule(<<Group("Section"), Lit(S_a), Group("ID")>>, [ID |-> S_id],
                 <<Text(pfx_example), Field("Section"), Text(<<"/">>), Field("ID")>>,
                 [Section |-> "lowercase"])

\* the same with transform ID: lowercase as well
T_ArticleLower ==
    TemplateRule(<<Group("Section"), Lit(S_a), Group("ID")>>, [ID |-> S_id],
                 <<Text(pfx_example), Field("Section"), Text(<<"/">>), Field("ID")>>,
                 [Section |-> "lowercase", ID |-> "lowercase"])

\* /(?P<Page>[^/]+)
T_Page ==
    TemplateRule(<<Group("Page")>>, EmptyMap,
                 <<Text(pfx_example \o <<"p","/">>), Field("Page")>>, EmptyMap)

\* no pattern, query_params ID: id
T_Query ==
    TemplateRule(<<>>, [ID |-> S_id],
                 <<Text(pfx_example \o <<"?","i","d","=">>), Field("ID")>>, EmptyMap)

\* /n/(?P<ID>[^/]+) of the site news.example.com
T_NewsArticle ==
    TemplateRule(<<Lit(S_n), Group("ID")>>, EmptyMap,
                 <<Text(pfx_news \o <<"n","/">>), Field("ID")>>, EmptyMap)

\* a transform with an action other than lowercase (Section), with lowercase
\* on a field both sources supply (ID) and on a field nothing supplies (Page)
T_Mixed ==
    TemplateRule(<<Group("Section"), Lit(S_a), Group("ID")>>, [ID |-> S_id],
                 <<Text(pfx_example), Field("Section"), Text(<<"/">>), Field("ID")>>,
                 [Section |-> "uppercase", ID |-> "lowercase", Page |-> "lowercase"])

\* README: /(?P<Section>[^/]+)/a/(?P<ArticleID>[^/]+), transform Section: lowercase
T_Iltalehti ==
    TemplateRule(<<Group("Section"), Lit(S_a), Group("ArticleID")>>, EmptyMap,
                 <<Text(pfx_iltalehti), Field("Section"), Text(<<"/","a","/">>),
                   Field("ArticleID")>>,
                 [Section |-> "lowercase"])

\* decodeOK: yaml.Unmarshal accepts the site's entry (its fields have the types
\* of the Site struct); a document with an entry of another shape is rejected.
Site(domain, templates) == [Domain |-> domain, Templates |-> templates, decodeOK |-> TRUE]

CfgExample   == << Site(example_com, <<T_Page>>) >>
CfgOverlap   == << Site(example_com, <<T_Article, T_Page, T_Query>>) >>
CfgOverlapRev == << Site(example_com, <<T_Query, T_Page, T_ArticleLower>>) >>
CfgTwoSites  == << Site(news_example_com, <<T_NewsArticle>>),
                   Site(example_com, <<T_Article, T_Page>>) >>
CfgIltalehti == << Site(iltalehti_fi, <<T_Iltalehti>>) >>
\* a rule set whose second pattern regexp.Compile rejects
CfgBad       == << Site(example_com, <<T_Page, [T_Article EXCEPT !.patternOK = FALSE]>>) >>
CfgBadTemplate == << Site(news_example_com, <<T_NewsArticle>>),
                     Site(example_com, <<T_Page, [T_Article EXCEPT !.templateOK = FALSE]>>) >>
CfgTransform == << Site(example_com, <<T_Mixed>>) >>
CfgUndecodable == << [Site(example_com, <<T_Page>>) EXCEPT !.decodeOK = FALSE] >>

Configs == {CfgExample, CfgOverlap, CfgOverlapRev, CfgTwoSites, CfgIltalehti, CfgBad,
            CfgBadTemplate, CfgUndecodable, CfgTransform}

URL(scheme, host, port, path, query) ==
    [scheme |-> scheme, host |-> host, port |-> port, path |-> path,
     query |-> query, frag |-> 0, valid |-> TRUE]

U_sub      == URL(S_https, sub_example_com, <<>>, <<S_x>>, <<>>)
U_not      == URL(S_https, notexample_com, <<>>, <<S_x>>, <<>>)
U_both     == URL(S_https, example_com, <<>>, <<S_News, S_a, S_42>>, << <<S_id, S_Q7>> >>)
U_path     == URL(S_https, example_com, <<>>, <<S_News, S_a, S_42>>, <<>>)
U_pageq    == URL(S_https, example_com, <<>>, <<S_x>>, << <<S_id, S_7>> >>)
U_query    == URL(S_https, example_com, <<>>, << <<>> >>, << <<S_id, S_7>> >>)
U_root     == URL(S_https, example_com, <<>>, << <<>> >>, <<>>)
U_newsx    == URL(S_https, news_example_com, <<>>, <<S_x>>, <<>>)
U_newsn    == URL(S_https, news_example_com, <<>>, <<S_n, S_42>>, <<>>)
U_newsart  == URL(S_https, news_example_com, <<>>, <<S_News, S_a, S_42>>, <<>>)
U_ilta     == URL(S_https, iltalehti_fi, <<>>, <<S_Politiikka, S_a, ArticleUUID>>, <<>>)
U_ilta_lc  == URL(S_https, iltalehti_fi, <<>>, <<S_politiikka, S_a, ArticleUUID>>, <<>>)
U_unknown  == URL(S_https, unknown_org, <<>>, <<S_x>>, <<>>)
U_messy    == URL(S_HTTPS, Example_COM, S_443, <<Dot, S_News, S_a, S_42>>,
                  << <<S_id, S_7>>, <<S_a, S_x>> >>)
U_port     == URL(S_https, example_com, S_8443, <<S_x>>, <<>>)
\* https://example.com/?id=Q7&id=7: one key twice, the larger value first
U_dupq     == URL(S_https, example_com, <<>>, << <<>> >>, << <<S_id, S_Q7>>, <<S_id, S_7>> >>)
\* https://example.com/x%zz: an invalid escape, which url.Parse rejects
U_bad      == [URL(S_https, example_com, <<>>, <<S_x>>, <<>>) EXCEPT !.valid = FALSE, !.frag = 3]

RawURLs == {U_sub, U_not, U_both, U_path, U_pageq, U_query, U_root, U_newsx, U_newsn,
            U_newsart,
            U_ilta, U_ilta_lc, U_unknown, U_messy, U_port, U_dupq, U_bad, EmptyURL}

(***************************************************************************)
(* State                                                                   *)
(***************************************************************************)
NullPtr == <<0, 0>>

NotFound == [found |-> FALSE, url |-> <<>>, err |-> NoError, site |-> 0, tmpl |-> 0]

\* Nothing returned yet.  op names the call; url its input; p, sig, err,
\* fields its results; failed says the caller was handed an error or null.
NoRet ==
    [op |-> "none", url |-> EmptyURL, p |-> NotFound, sig |-> EmptyText,
     err |-> NoError, failed |-> FALSE, fields |-> EmptyMap, s |-> 0, j |-> 0,
     ptr |-> NullPtr, len |-> 0, src |-> EmptyURL, written |-> FALSE,
     rptr |-> NullPtr, rlen |-> 0, packed |-> <<0, 0, 0, 0>>, held |-> FALSE,
     kind |-> "none"]

NoPin == [set |-> FALSE, url |-> EmptyURL, sig |-> EmptyText, err |-> NoError]

\* The logical callers that share one module instance, and a caller with no
\* call in flight.
Callers == {1, 2}

NoCall ==
    [op |-> "none", pc |-> "idle", cfg |-> <<>>, i |-> 0, j |-> 0, url |-> EmptyURL,
     raced |-> FALSE, old |-> <<>>, new |-> <<>>, seen |-> <<>>, versions |-> {},
     p |-> NotFound, ptr |-> NullPtr, len |-> 0, failed |-> FALSE]

NoCalls == [c \in Callers |-> NoCall]

Init ==
    /\ Rules = <<>>
    /\ status = "start"
    /\ ret = NoRet
    /\ memoryArena = EmptyMap
    /\ heap = EmptyMap
    /\ pin = NoPin
    /\ calls = NoCalls
    /\ delivered = {}

(***************************************************************************)
(* The library and its JS / CLI bindings                                   *)
(***************************************************************************)
\* js.go main: LoadRules(DefaultCfgData), panic on an error
\* RegisterCallbacks() and the final select {} alone: hashUrl is served while
\* no rule set was loaded
JsMainRegisterOnly(cfg) ==
    /\ status = "start"
    /\ status' = "ready"
    /\ UNCHANGED <<Rules, ret, memoryArena, heap, pin, calls, delivered>>

JsMain(cfg) ==
    /\ status = "start"
    /\ \E l \in {LoadRules(cfg)} :
           IF l.ok THEN Rules' = l.sites /\ status' = "ready"
           ELSE Rules' = Rules /\ status' = "panicked"
    /\ UNCHANGED <<ret, memoryArena, heap, pin, calls, delivered>>

\* cli.go main: load, processURL, print, exit
CliMain(cfg, urlInput) ==
    /\ status = "start"
    /\ \E l \in {LoadRules(cfg)} :
           IF ~l.ok THEN Rules' = Rules /\ ret' = [NoRet EXCEPT !.op = "cli", !.failed = TRUE]
           ELSE \E p \in {processURL(l.sites, urlInput)} :
                    /\ Rules' = l.sites
                    /\ ret' = [NoRet EXCEPT !.op = "cli", !.url = urlInput, !.p = p,
                                   !.err = p.err, !.failed = (p.err # NoError),
                                   !.sig = IF p.err = NoError THEN generateSignature(p.url)
                                           ELSE EmptyText]
    /\ status' = "exited"
    /\ UNCHANGED <<memoryArena, heap, pin, calls, delivered>>

\* a processURL that moves the site it matched to the front of Rules.Sites
CallProcessURLMoveToFront(inputURL) ==
    /\ status = "ready"
    /\ \E p \in {processURL(Rules, inputURL)} :
           /\ ret' = [NoRet EXCEPT !.op = "processURL", !.url = inputURL, !.p = p,
                           !.err = p.err, !.failed = (p.err # NoError)]
           /\ Rules' = IF p.site > 1
                       THEN <<Rules[p.site]>> \o SubSeq(Rules, 1, p.site - 1)
                                \o SubSeq(Rules, p.site + 1, Len(Rules))
                       ELSE Rules
    /\ UNCHANGED <<status, memoryArena, heap, pin, calls, delivered>>

\* processURL(inputURL), called in process (TestExtractionRules)
CallProcessURL(inputURL) ==
    /\ status = "ready"
    /\ \E p \in {processURL(Rules, inputURL)} :
           ret' = [NoRet EXCEPT !.op = "processURL", !.url = inputURL, !.p = p,
                       !.err = p.err, !.failed = (p.err # NoError)]
    /\ UNCHANGED <<Rules, status, memoryArena, heap, pin, calls, delivered>>

\* extractFields(parsed, rule) for template j of site s
CallExtractFields(inputURL, s, j) ==
    /\ status = "ready"
    /\ normalizeURL(inputURL).err = NoError
    /\ \E parsed \in {normalizeURL(inputURL).url} :
       \E e \in {extractFields(parsed, Rules[s].Templates[j])} :
           ret' = [NoRet EXCEPT !.op = "extractFields", !.url = inputURL, !.s = s, !.j = j,
                       !.fields = e.fields, !.err = e.err, !.failed = (e.err # NoError)]
    /\ UNCHANGED <<Rules, status, memoryArena, heap, pin, calls, delivered>>

\* lib GetSignature(inputURL) (string, error), called in process
CallGetSignature(inputURL) ==
    /\ status = "ready"
    /\ \E g \in {getSignature(Rules, inputURL)} :
           ret' = [NoRet EXCEPT !.op = "getSignature", !.url = inputURL,
                       !.p = processURL(Rules, inputURL), !.sig = g.sig,
                       !.err = g.err, !.failed = (g.err # NoError)]
    /\ UNCHANGED <<Rules, status, memoryArena, heap, pin, calls, delivered>>

\* js.go hashUrl: the signature, or nil on an error
hashUrl(inputURL) ==
    /\ status = "ready"
    /\ \E g \in {getSignature(Rules, inputURL)} :
           ret' = [NoRet EXCEPT !.op = "hashUrl", !.url = inputURL,
                       !.sig = IF g.err # NoError THEN EmptyText ELSE g.sig,
                       !.err = g.err, !.failed = (g.err # NoError)]
    /\ UNCHANGED <<Rules, status, memoryArena, heap, pin, calls, delivered>>

\* hashUrl -> wasmGetSignature: processURL, panic(err) on an error
wasmGetSignature(inputURL) ==
    /\ status = "ready"
    /\ \E p \in {processURL(Rules, inputURL)} :
           IF p.err # NoError
           THEN /\ status' = "panicked"
                /\ ret' = [NoRet EXCEPT !.op = "wasmGetSignature", !.url = inputURL,
                               !.p = p, !.err = p.err, !.failed = TRUE]
           ELSE /\ status' = status
                /\ ret' = [NoRet EXCEPT !.op = "wasmGetSignature", !.url = inputURL,
                               !.p = p, !.sig = generateSignature(p.url)]
    /\ UNCHANGED <<Rules, memoryArena, heap, pin, calls, delivered>>

\* wasmLoadConfig(data): the exported LoadConfig, a load over a module that
\* already serves; it panics when LoadRules returns an error
wasmLoadConfig(cfg) ==
    /\ status = "ready"
    /\ \E l \in {LoadRules(cfg)} :
           /\ IF l.ok THEN Rules' = l.sites /\ status' = "ready"
              ELSE Rules' = Rules /\ status' = "panicked"
           /\ ret' = [NoRet EXCEPT !.op = "LoadConfig", !.failed = ~l.ok]
    /\ UNCHANGED <<memoryArena, heap, pin, calls, delivered>>

NextLib ==
    \/ \E cfg \in Configs : JsMain(cfg)
    \/ \E cfg \in Configs : wasmLoadConfig(cfg)
    \/ \E cfg \in Configs, u \in RawURLs : CliMain(cfg, u)
    \/ \E u \in RawURLs : CallProcessURL(u)
    \/ \E u \in RawURLs : \E s \in 1..Len(Rules) : \E j \in 1..Len(Rules[s].Templates) :
           CallExtractFields(u, s, j)
    \/ \E u \in RawURLs : CallGetSignature(u)
    \/ \E u \in RawURLs : hashUrl(u)
    \/ \E u \in RawURLs : wasmGetSignature(u)

SpecLib == Init /\ [][NextLib]_vars

(***************************************************************************)
(* The WASI boundary (wasi.go).  A uint32 address is the pair <<high 16    *)
(* bits, low 16 bits>>; the uint64 GetSignature returns is the tuple of    *)
(* its four 16-bit limbs, most significant first.                          *)
(***************************************************************************)
maxUrlLength == 65536
maxAllocSize == 1048576

\* Where the allocator may place a buffer: NumLowAddrs addresses from
\* 0x00400000 on, 2 MiB apart, and 0x01000000, the first above 0xFFFFFF.
NumLowAddrs == 2
LowAddrs  == {<<64 + 32 * k, 0>> : k \in 0..(NumLowAddrs - 1)}
HighAddrs == {<<256, 0>>}
Addrs     == LowAddrs \cup HighAddrs

\* A []byte of n bytes holding a URL string or a result string.
UrlCell(u)  == [n |-> URLBytes(u), isText |-> FALSE, url |-> u, text |-> EmptyText]
TextCell(t) == [n |-> TextLen(t), isText |-> TRUE, url |-> EmptyURL, text |-> t]

\* make([]byte, size): size zero bytes, a string url.Parse rejects
ZeroBytes(size) == [EmptyURL EXCEPT !.valid = FALSE, !.frag = size]

\* The addresses no buffer the arena holds occupies.
\* an allocator that takes no account of the buffers the arena keeps alive
FreshAny == Addrs

\* The addresses the allocator may give a new buffer: memoryArena holds the
\* slice of every registered buffer, so the collector does not reclaim it and
\* no new object is placed on it.
Fresh == Addrs \ DOMAIN memoryArena

\* a Store that keeps no entry but its own
StoreAlone(m, k, v) == [a \in {k} |-> v]

\* sync.Map Store / Delete
Store(m, k, v) == [a \in (DOMAIN m) \cup {k} |-> IF a = k THEN v ELSE m[a]]
DeleteAll(m, k) == EmptyMap

Delete(m, k)   == [a \in (DOMAIN m) \ {k} |-> m[a]]

ptrToStringOfArena(ptr, length) ==
    IF length = 0 \/ length > maxUrlLength THEN EmptyURL
    ELSE IF ptr = NullPtr \/ ptr[1] > 255 THEN EmptyURL
    ELSE IF ptr \notin DOMAIN memoryArena THEN EmptyURL
    ELSE heap[ptr].url

\* a ptrToString without the bound on the address
ptrToStringAnyAddress(ptr, length) ==
    IF length = 0 THEN EmptyURL
    ELSE IF length > maxUrlLength THEN EmptyURL
    ELSE IF ptr = NullPtr THEN EmptyURL
    ELSE heap[ptr].url

\* ptrToString: the string at ptr, or "" when a guard refuses
ptrToString(ptr, length) ==
    IF length = 0 THEN EmptyURL
    ELSE IF length > maxUrlLength THEN EmptyURL
    ELSE IF ptr = NullPtr \/ ptr[1] > 255 THEN EmptyURL      \* ptr > 0xFFFFFF
    ELSE heap[ptr].url

stringToPtrNoStore(s, a) ==
    IF TextLen(s) = 0 THEN [ptr |-> NullPtr, len |-> 0, stored |-> FALSE]
    ELSE [ptr |-> a, len |-> TextLen(s), stored |-> FALSE]

\* stringToPtr, with a the address the allocator gives []byte(s)
stringToPtr(s, a) ==
    IF TextLen(s) = 0 THEN [ptr |-> NullPtr, len |-> 0, stored |-> FALSE]
    ELSE IF TextLen(s) > 2147483647 THEN [ptr |-> NullPtr, len |-> 0, stored |-> FALSE]
    ELSE [ptr |-> a, len |-> TextLen(s), stored |-> TRUE]

\* x | 0x8000 on a 16-bit limb
BitOr15(x) == IF (x \div 32768) % 2 = 1 THEN x ELSE x + 32768

\* uint64(sigLen): the low word of a success result
LenWord(len) == <<len \div 65536, len % 65536>>

\* uint64(errLen | 0x80000000): the low word of an error result
ErrWordNoFlag(len) == <<len \div 65536, len % 65536>>

ErrWord(len) == <<BitOr15(len \div 65536), len % 65536>>

\* uint64(ptr)<<32 | word
Pack64SwappedHalves(ptr, word) == <<word[1], word[2], ptr[1], ptr[2]>>

Pack64(ptr, word) == <<ptr[1], ptr[2], word[1], word[2]>>

\* The value GetSignature returns for the (ptr, len) stringToPtr gave it
Packed(ptr, len, isErr) ==
    IF isErr THEN Pack64(ptr, ErrWord(len)) ELSE Pack64(ptr, LenWord(len))

\* The host's decoding (package doc): sig_ptr = (result >> 32) & 0xFFFFFFFF,
\* sig_len = result & 0x7FFFFFFF, is_error = (result & 0x80000000) != 0
DecodePtr(r) == <<r[1], r[2]>>
DecodeLen(r) == (r[3] % 32768) * 65536 + r[4]
DecodeErr(r) == (r[3] \div 32768) % 2 = 1

\* wasi.go main: load the rules, os.Exit(1) on an error
WasiMain(cfg) ==
    /\ status = "start"
    /\ \E l \in {LoadRules(cfg)} :
           IF l.ok THEN Rules' = l.sites /\ status' = "ready"
           ELSE Rules' = Rules /\ status' = "exited"
    /\ UNCHANGED <<ret, memoryArena, heap, pin, calls, delivered>>

\* Malloc: if size == 0 || size > maxAllocSize { return 0 }
MallocRejectsAtLimit(size) == size = 0 \/ size >= maxAllocSize

MallocRejects(size) == size = 0 \/ size > maxAllocSize

\* Malloc(size), with a the address the allocator gives make([]byte, size)
Malloc(size, a) ==
    /\ status = "ready"
    /\ IF MallocRejects(size)
       THEN /\ ret' = [NoRet EXCEPT !.op = "Malloc", !.len = size]
            /\ UNCHANGED <<memoryArena, heap>>
       ELSE /\ a \in Fresh
            /\ memoryArena' = Store(memoryArena, a, size)
            /\ heap' = Store(heap, a, UrlCell(ZeroBytes(size)))
            /\ ret' = [NoRet EXCEPT !.op = "Malloc", !.len = size, !.rptr = a]
    /\ UNCHANGED <<Rules, status, pin, calls, delivered>>

\* The host writes the bytes of url to the buffer Malloc gave it at ptr.
HostWrite(ptr, url) ==
    /\ status = "ready"
    /\ ptr \in DOMAIN memoryArena
    /\ ~heap[ptr].isText
    /\ memoryArena[ptr] = URLBytes(url)
    /\ heap' = [heap EXCEPT ![ptr] = UrlCell(url)]
    /\ ret' = [NoRet EXCEPT !.op = "HostWrite"]
    /\ UNCHANGED <<Rules, status, memoryArena, pin, calls, delivered>>

\* Who registered the entry at ptr: Malloc ("input"), stringToPtr on behalf
\* of GetSignature ("result"), or nobody ("none").
KindOf(ptr) ==
    IF ptr \notin DOMAIN memoryArena THEN "none"
    ELSE IF heap[ptr].isText THEN "result" ELSE "input"

\* a Free that leaves the entries stringToPtr registered alone
FreeInputOnly(ptr) ==
    /\ status = "ready"
    /\ memoryArena' = IF KindOf(ptr) = "result" THEN memoryArena ELSE Delete(memoryArena, ptr)
    /\ heap' = IF KindOf(ptr) = "result" THEN heap ELSE Delete(heap, ptr)
    /\ ret' = [NoRet EXCEPT !.op = "Free", !.ptr = ptr,
                    !.held = (ptr \in DOMAIN memoryArena), !.kind = KindOf(ptr)]
    /\ UNCHANGED <<Rules, status, pin, calls, delivered>>

\* Free(ptr).  The host does not touch a buffer it has released, so heap
\* stops following the bytes at ptr.
Free(ptr) ==
    /\ status = "ready"
    /\ memoryArena' = Delete(memoryArena, ptr)
    /\ heap' = Delete(heap, ptr)
    /\ ret' = [NoRet EXCEPT !.op = "Free", !.ptr = ptr,
                    !.held = (ptr \in DOMAIN memoryArena), !.kind = KindOf(ptr)]
    /\ UNCHANGED <<Rules, status, pin, calls, delivered>>

\* GetSignature(urlPtr, urlLen), with a the address the allocator gives the
\* result string.  The host passes the null address or the address of a
\* buffer it has not released.  pin remembers the first call made on a
\* buffer the host wrote.
GetSignature(urlPtr, urlLen, a) ==
    /\ status = "ready"
    /\ urlPtr = NullPtr \/ urlPtr \in DOMAIN heap
    /\ a \in Fresh
    /\ \E url \in {ptrToString(urlPtr, urlLen)} :
       \E g \in {getSignature(Rules, url)} :
       \E out \in {IF g.err # NoError THEN ErrText(g.err) ELSE g.sig} :
       \E r \in {stringToPtr(out, a)} :
       LET packed == Packed(r.ptr, r.len, g.err # NoError)
           cell   == IF urlPtr = NullPtr THEN TextCell(EmptyText) ELSE heap[urlPtr]
           wrote  == urlPtr \in DOMAIN memoryArena /\ ~cell.isText /\ cell.url.valid
                     /\ urlLen = cell.n
       IN  /\ memoryArena' = IF r.stored THEN Store(memoryArena, r.ptr, r.len)
                             ELSE memoryArena
           /\ heap' = IF r.stored THEN Store(heap, r.ptr, TextCell(out)) ELSE heap
           /\ ret' = [NoRet EXCEPT !.op = "GetSignature", !.ptr = urlPtr, !.len = urlLen,
                           !.src = cell.url,
                           !.written = wrote,
                           !.held = (urlPtr \in DOMAIN memoryArena),
                           !.url = url, !.sig = g.sig, !.err = g.err,
                           !.failed = (g.err # NoError),
                           !.rptr = r.ptr, !.rlen = r.len, !.packed = packed]
           /\ pin' = IF ~pin.set /\ wrote
                     THEN [set |-> TRUE, url |-> url, sig |-> g.sig, err |-> g.err]
                     ELSE pin
    /\ UNCHANGED <<Rules, status, calls, delivered>>

\* The URLs the host signs through the boundary: one that matches a rule, one
\* of the same length that matches none, and the first padded by a fragment
\* to one byte more than 64 KiB.
U_nomatch == URL(S_https, unknown_org, <<>>, <<S_News, S_a, S_42>>, <<>>)
U_long    == [U_path EXCEPT !.frag = maxUrlLength + 1 - URLBytes(U_path)]

WasiURLs    == {U_path, U_nomatch, U_long}
WasiConfigs == {CfgOverlap, CfgBad}
MallocSizes == {0, maxAllocSize, maxAllocSize + 1} \cup {URLBytes(u) : u \in WasiURLs}

\* The (address, length) pairs the host passes: a buffer it allocated with
\* its size or 0, or the null address.
CallArgs ==
    {<<p, heap[p].n>> : p \in {q \in DOMAIN heap : ~heap[q].isText}}
        \cup {<<p, 0>> : p \in DOMAIN heap} \cup {<<NullPtr, 29>>}

Next ==
    \/ \E cfg \in WasiConfigs : WasiMain(cfg)
    \/ \E size \in MallocSizes, a \in Addrs : Malloc(size, a)
    \/ \E ptr \in DOMAIN memoryArena, u \in WasiURLs : HostWrite(ptr, u)
    \/ \E ptr \in Addrs \cup {NullPtr} : Free(ptr)
    \/ \E c \in CallArgs, a \in Addrs : GetSignature(c[1], c[2], a)

Spec == Init /\ [][Next]_vars

(***************************************************************************)
(* The packing of GetSignature's result on its own, over addresses and     *)
(* lengths at the edges of their ranges.                                   *)
(***************************************************************************)
PackPtrs ==
    {<<0, 0>>, <<0, 1>>, <<0, 65535>>, <<1, 0>>, <<255, 65535>>, <<256, 0>>,
     <<32768, 0>>, <<65535, 65535>>}
PackLens == {0, 1, 64, 65535, 65536, 2147418112, 2147483647}

InitPack ==
    /\ Rules = <<>>
    /\ status = "packing"
    /\ memoryArena = EmptyMap
    /\ heap = EmptyMap
    /\ pin = NoPin
    /\ calls = NoCalls
    /\ delivered = {}
    /\ \E p \in PackPtrs, n \in PackLens, e \in BOOLEAN :
           ret = [NoRet EXCEPT !.op = "stringToPtr", !.rptr = p, !.rlen = n, !.failed = e]

\* GetSignature's return statement
ReturnPacked ==
    /\ status = "packing"
    /\ ret.op = "stringToPtr"
    /\ ret' = [ret EXCEPT !.op = "packed", !.packed = Packed(ret.rptr, ret.rlen, ret.failed)]
    /\ UNCHANGED <<Rules, status, memoryArena, heap, pin, calls, delivered>>

NextPack == ReturnPacked

SpecPack == InitPack /\ [][NextPack]_vars

(***************************************************************************)
(* ptrToString on its own: one buffer somewhere in linear memory, held by  *)
(* the arena or not, read with its length, with length 0, or through the   *)
(* null address.                                                           *)
(***************************************************************************)
U_max == [U_path EXCEPT !.frag = maxUrlLength - URLBytes(U_path)]

PtrAddrs == {<<0, 1>>, <<64, 0>>, <<255, 65535>>, <<256, 0>>, <<65535, 65535>>}
PtrURLs  == {U_path, U_nomatch, U_max, U_long}

InitPtr ==
    /\ Rules = <<>>
    /\ status = "reading"
    /\ pin = NoPin
    /\ calls = NoCalls
    /\ delivered = {}
    /\ ret = [NoRet EXCEPT !.op = "memory"]
    /\ \E p \in PtrAddrs, u \in PtrURLs, held \in BOOLEAN :
           /\ heap = Store(EmptyMap, p, UrlCell(u))
           /\ memoryArena = IF held THEN Store(EmptyMap, p, URLBytes(u)) ELSE EmptyMap

\* url := ptrToString(urlPtr, urlLen)
ReadBytes(ptr, length) ==
    /\ status = "reading"
    /\ ptr = NullPtr \/ ptr \in DOMAIN heap
    /\ ret' = [NoRet EXCEPT !.op = "ptrToString", !.ptr = ptr, !.len = length,
                    !.url = ptrToString(ptr, length),
                    !.held = (ptr \in DOMAIN memoryArena)]
    /\ UNCHANGED <<Rules, status, memoryArena, heap, pin, calls, delivered>>

NextPtr ==
    \E ptr \in DOMAIN heap \cup {NullPtr} :
        \E length \in {0} \cup {heap[p].n : p \in DOMAIN heap} : ReadBytes(ptr, length)

SpecPtr == InitPtr /\ [][NextPtr]_vars

(***************************************************************************)
(* Properties of the library (stated for SpecLib)                          *)
(***************************************************************************)
\* The URL the last call parsed, and the host it matched domains against.
RetParsed == normalizeURL(ret.url).url
RetHost   == HostOf(RetParsed)
RetNormOK == normalizeURL(ret.url).err = NoError

\* The template's pattern matches the path, or the template has no pattern.
PatternMatches(parsed, rule) ==
    rule._Regex.nil \/ MatchString(rule._Regex.elems, parsed.path)

\* The template matches and its extraction yields a non-empty field mapping.
Usable(parsed, rule) ==
    PatternMatches(parsed, rule) /\ extractFields(parsed, rule).err = NoError

Rendered(parsed, rule) == Execute(rule._Template, extractFields(parsed, rule).fields)

\* The site the spec's rule matching selects: the first whose domain is a
\* suffix of the host.
FirstSuffixSite(s) ==
    /\ HasSuffix(RetHost, Rules[s].Domain)
    /\ \A h \in 1..(s - 1) : ~HasSuffix(RetHost, Rules[h].Domain)

\* C1 (as claimed): when example.com is the only site, processURL selects it
\* for the host sub.example.com and returns the no-matching-rule error for the
\* host notexample.com.
C1_SuffixDomainMatching ==
    (ret.op = "processURL" /\ Len(Rules) = 1 /\ Rules[1].Domain = example_com) =>
        /\ RetHost = sub_example_com => (ret.p.found /\ ret.p.site = 1)
        /\ RetHost = notexample_com => (~ret.p.found /\ ret.p.err = NoMatch(RetHost))

\* C2: when two templates i < j of a site are both usable for a URL (pattern
\* matches or is absent, extraction non-empty), processURL never returns from
\* the later one; and when the site is the one selected for the host, the URL
\* returned is the one rendered from the site's first usable template.
C2_OrderSensitivity ==
    (ret.op = "processURL" /\ RetNormOK) =>
        \A s \in 1..Len(Rules) : \A i, j \in 1..Len(Rules[s].Templates) :
            LET T == Rules[s].Templates
            IN  (i < j /\ HasSuffix(RetHost, Rules[s].Domain)
                 /\ Usable(RetParsed, T[i]) /\ Usable(RetParsed, T[j])) =>
                    /\ ret.p.found
                    /\ <<ret.p.site, ret.p.tmpl>> # <<s, j>>
                    /\ FirstSuffixSite(s) =>
                          /\ ret.p.site = s
                          /\ ret.p.tmpl <= i
                          /\ \A h \in 1..(ret.p.tmpl - 1) : ~Usable(RetParsed, T[h])
                          /\ ret.p.url = Rendered(RetParsed, T[ret.p.tmpl])

\* C2 witness: processURL returned the output of a template that is followed
\* by another usable template whose output differs.
C2_Witness ==
    /\ ret.op = "processURL"
    /\ ret.p.found
    /\ \E j \in (ret.p.tmpl + 1)..Len(Rules[ret.p.site].Templates) :
           /\ Usable(RetParsed, Rules[ret.p.site].Templates[j])
           /\ Rendered(RetParsed, Rules[ret.p.site].Templates[j]) # ret.p.url

\* The fields of the rule that the path and the query both supply.
BothSources(parsed, rule) ==
    {F \in DOMAIN rule.QueryParams :
        /\ F \in DOMAIN RegexFields(parsed, rule)
        /\ QueryGet(parsed.query, rule.QueryParams[F]) # <<>>}

\* C3 (as claimed): for a field F with a non-empty path capture and a
\* non-empty value of its mapped query key, extractFields returns the query
\* value for F.
C3_QueryOverPath ==
    ret.op = "extractFields" =>
        LET rule == Rules[ret.s].Templates[ret.j]
        IN  \A F \in BothSources(RetParsed, rule) :
                /\ F \in DOMAIN ret.fields
                /\ ret.fields[F] = QueryGet(RetParsed.query, rule.QueryParams[F])

\* C3 (amended): ... extractFields returns the query value for F, lower-cased
\* when the rule's transform names F with lowercase; never the path capture.
C3_QueryOverPathTransformed ==
    ret.op = "extractFields" =>
        LET rule == Rules[ret.s].Templates[ret.j]
        IN  \A F \in BothSources(RetParsed, rule) :
                LET q == QueryGet(RetParsed.query, rule.QueryParams[F])
                IN  /\ F \in DOMAIN ret.fields
                    /\ ret.fields[F] =
                          IF F \in DOMAIN rule.Transform /\ rule.Transform[F] = "lowercase"
                          THEN ToLower(q) ELSE q

\* C3 witness: extractFields ran on a URL whose path capture and query value
\* for one field differ, and returned the query value.
C3_Witness ==
    /\ ret.op = "extractFields"
    /\ \E F \in BothSources(RetParsed, Rules[ret.s].Templates[ret.j]) :
           LET rule == Rules[ret.s].Templates[ret.j]
           IN  /\ RegexFields(RetParsed, rule)[F] # QueryGet(RetParsed.query, rule.QueryParams[F])
               /\ ret.fields[F] = QueryGet(RetParsed.query, rule.QueryParams[F])

\* C4 (as claimed): when no template of the first site whose domain is a
\* suffix of the host matches the path, the result is NoMatch, whatever the
\* later sites are.
C4_FirstSiteOnly ==
    (ret.op = "processURL" /\ RetNormOK) =>
        \A s \in 1..Len(Rules) :
            (FirstSuffixSite(s)
             /\ \A j \in 1..Len(Rules[s].Templates) :
                    ~PatternMatches(RetParsed, Rules[s].Templates[j])) =>
                (~ret.p.found /\ ret.p.err = NoMatch(RetHost))

\* The sites whose domain is a suffix of the host and that have a usable template.
UsableSites ==
    {s \in 1..Len(Rules) :
        /\ HasSuffix(RetHost, Rules[s].Domain)
        /\ \E j \in 1..Len(Rules[s].Templates) : Usable(RetParsed, Rules[s].Templates[j])}

\* C4 (amended): processURL returns from the first site, in rule-set order,
\* whose domain is a suffix of the host and that has a usable template (from
\* that site's first usable template); a suffix-matching site without a usable
\* template is passed over, and the result is NoMatch exactly when no
\* suffix-matching site has a usable template.
C4_FirstUsableSite ==
    (ret.op = "processURL" /\ RetNormOK) =>
        IF UsableSites = {}
        THEN ~ret.p.found /\ ret.p.err = NoMatch(RetHost)
        ELSE /\ ret.p.found
             /\ ret.p.err = NoError
             /\ ret.p.site \in UsableSites
             /\ \A s \in UsableSites : ret.p.site <= s
             /\ Usable(RetParsed, Rules[ret.p.site].Templates[ret.p.tmpl])
             /\ \A h \in 1..(ret.p.tmpl - 1) :
                    ~Usable(RetParsed, Rules[ret.p.site].Templates[h])
             /\ ret.p.url = Rendered(RetParsed, Rules[ret.p.site].Templates[ret.p.tmpl])

\* C4 witness: processURL returned from a later site although an earlier
\* site's domain is a suffix of the host.
C4_Witness ==
    /\ ret.op = "processURL"
    /\ ret.p.found
    /\ \E h \in 1..(ret.p.site - 1) : HasSuffix(RetHost, Rules[h].Domain)

\* No configured domain is a suffix of the host.
NoDomainMatches == \A s \in 1..Len(Rules) : ~HasSuffix(RetHost, Rules[s].Domain)

\* C8 (as claimed): an end-to-end signature call on a URL whose host has no
\* configured domain as a suffix hands its caller an error (no matching rule
\* found for host ...) and the module does not panic.
C8_NoMatchFailure ==
    (ret.op \in {"getSignature", "hashUrl", "wasmGetSignature", "GetSignature"}
     /\ RetNormOK /\ NoDomainMatches) =>
        /\ status # "panicked"
        /\ ret.failed
        /\ ret.err = NoMatch(RetHost)

\* https://www.iltalehti.fi/politiikka/a/2b2ac72b-42df-4d8f-a9ee-7e731216d880
IltalehtiCanonical ==
    <<"h","t","t","p","s",":","/","/","w","w","w",".","i","l","t","a","l","e","h","t","i",".","f","i","/",
      "p","o","l","i","t","i","i","k","k","a","/","a","/">> \o ArticleUUID

\* C10: with the iltalehti.fi rule loaded, the URLs
\* https://iltalehti.fi/Politiikka/a/<id> and https://iltalehti.fi/politiikka/a/<id>
\* canonicalize to https://www.iltalehti.fi/politiikka/a/<id>, and the
\* signature returned is generateSignature of exactly that string.
C10_FixtureConformance ==
    (ret.op \in {"getSignature", "cli"} /\ ret.url \in {U_ilta, U_ilta_lc}
     /\ Len(Rules) = 1 /\ Rules[1].Domain = iltalehti_fi) =>
        /\ ~ret.failed
        /\ ret.p.url = IltalehtiCanonical
        /\ ret.sig.t = "sig"
        /\ ret.sig.of = IltalehtiCanonical

\* C10 witness: the signature call ran on the mixed-case fixture URL.
C10_Witness ==
    /\ ret.op = "getSignature"
    /\ ret.url = U_ilta
    /\ Rules[1].Domain = iltalehti_fi
    /\ ret.sig.of = IltalehtiCanonical

(***************************************************************************)
(* Properties of the WASI boundary (stated for Spec and SpecPack)          *)
(***************************************************************************)
\* What the host decodes from the last GetSignature result.
DecodedText == heap[DecodePtr(ret.packed)].text

\* C5: when the host has written a URL of N bytes to a buffer Malloc(N) gave
\* it and calls GetSignature(address, N), the decoded error bit and the
\* decoded string equal the outcome of the in-process call on the same URL.
C5_BoundaryRoundTrip ==
    (ret.op = "GetSignature" /\ ret.written) =>
        LET g == getSignature(Rules, ret.src)
        IN  /\ DecodeErr(ret.packed) = (g.err # NoError)
            /\ DecodedText = (IF g.err # NoError THEN ErrText(g.err) ELSE g.sig)

\* C6: after every GetSignature call the error bit of the packed result is
\* set iff the pipeline returned an error; when clear the decoded address and
\* length address the signature and the length is 64; when set they address
\* the text of the error.
C6_ErrorDiscriminator ==
    (ret.op = "GetSignature") =>
        /\ DecodeErr(ret.packed) = (ret.err # NoError)
        /\ DecodePtr(ret.packed) \in DOMAIN memoryArena
        /\ DecodeLen(ret.packed) = memoryArena[DecodePtr(ret.packed)]
        /\ DecodeLen(ret.packed) = heap[DecodePtr(ret.packed)].n
        /\ ~DecodeErr(ret.packed) =>
              /\ DecodedText = ret.sig
              /\ ret.sig.t = "sig"
              /\ DecodeLen(ret.packed) = SignatureLen
        /\ DecodeErr(ret.packed) => DecodedText = ErrText(ret.err)

\* C6 witness: a call that failed, after an earlier call that succeeded.
C6_Witness ==
    /\ ret.op = "GetSignature"
    /\ DecodeErr(ret.packed)
    /\ pin.set
    /\ pin.err = NoError

\* C7: for every address p, length n <= 0x7FFFFFFF and error flag e that
\* GetSignature packs, the result r has (r >> 32) = p, (r & 0x7FFFFFFF) = n
\* and ((r & 0x80000000) != 0) = e.
C7_PackedRoundTrip ==
    (ret.op \in {"packed", "GetSignature"}) =>
        /\ DecodePtr(ret.packed) = ret.rptr
        /\ DecodeLen(ret.packed) = ret.rlen
        /\ DecodeErr(ret.packed) = ret.failed

\* C7 witness: the largest address and length packed with the error flag.
C7_Witness ==
    /\ ret.op = "packed"
    /\ ret.rptr = <<65535, 65535>>
    /\ ret.rlen = 2147483647
    /\ ret.failed

C11_FreeIdempotence ==
    [][ret'.op = "Free" =>
          /\ status' = status
          /\ ret'.ptr \notin DOMAIN memoryArena => memoryArena' = memoryArena
          /\ ret'.ptr \notin DOMAIN memoryArena'
          /\ Delete(memoryArena', ret'.ptr) = memoryArena'
          /\ \A p \in DOMAIN memoryArena \ {ret'.ptr} :
                 p \in DOMAIN memoryArena' /\ memoryArena'[p] = memoryArena[p]]_vars

\* C11 witness: Free returned for an address the arena did not hold, while
\* the arena held other buffers.
C11_Witness ==
    /\ ret.op = "Free"
    /\ ~ret.held
    /\ ret.ptr \in Addrs
    /\ DOMAIN memoryArena # {}
    /\ status = "ready"

\* C12: Malloc(size) returns the null address and leaves the arena unchanged
\* when size = 0 or size > 1048576; for every other size it returns a
\* non-null address that the arena holds, with a buffer of size bytes.
\* (ret'.len is the size the step was called with.)
C12_AllocateBounds ==
    [][ret'.op = "Malloc" =>
          IF ret'.len = 0 \/ ret'.len > 1048576
          THEN /\ ret'.rptr = NullPtr
               /\ memoryArena' = memoryArena
          ELSE /\ ret'.rptr # NullPtr
               /\ ret'.rptr \in DOMAIN memoryArena'
               /\ memoryArena'[ret'.rptr] = ret'.len
               /\ heap'[ret'.rptr].n = ret'.len]_vars

\* C12 witness: Malloc(1048576) returned a buffer, and the arena holds it.
C12_Witness ==
    /\ ret.op = "Malloc"
    /\ ret.len = 1048576
    /\ ret.rptr # NullPtr
    /\ ret.rptr \in DOMAIN memoryArena
    /\ memoryArena[ret.rptr] = 1048576

\* The result buffers the arena holds.
ResultEntries == {p \in DOMAIN memoryArena : heap[p].isText}

\* C13: every GetSignature call adds exactly one entry to the arena, the
\* buffer of its result, and leaves every entry that was there, the caller's
\* input buffer included, as it was; no call but Free removes an entry.
C13_ResultsRetained ==
    [][/\ ret'.op = "GetSignature" =>
              /\ ret'.rptr # NullPtr
              /\ ret'.rptr \notin DOMAIN memoryArena
              /\ DOMAIN memoryArena' = DOMAIN memoryArena \cup {ret'.rptr}
              /\ \A p \in DOMAIN memoryArena : memoryArena'[p] = memoryArena[p]
              /\ heap'[ret'.rptr].isText
              /\ ret'.ptr \in DOMAIN memoryArena => ret'.ptr \in DOMAIN memoryArena'
       /\ ret'.op # "Free" => DOMAIN memoryArena \subseteq DOMAIN memoryArena']_vars

\* C13 witness: after a second GetSignature call the arena holds the input
\* buffer and the results of both calls.
C13_Witness ==
    /\ ret.op = "GetSignature"
    /\ ret.held
    /\ ret.ptr \in DOMAIN memoryArena
    /\ ret.rptr \in ResultEntries
    /\ Cardinality(ResultEntries) = 2

\* C14: ptrToString(address, length) returns "" when length = 0, when
\* length > 65536, or when the address is 0 or above 0xFFFFFF; otherwise it
\* returns the bytes at the address, whether the arena holds it or not.
C14_ReadBytesGuards ==
    (ret.op = "ptrToString") =>
        IF ret.len = 0 \/ ret.len > 65536 \/ ret.ptr = <<0, 0>> \/ ret.ptr[1] >= 256
        THEN ret.url = EmptyURL
        ELSE ret.url = heap[ret.ptr].url

\* C14 witness: 65536 bytes read at 0xFFFFFF, an address the arena does not
\* hold.
C14_Witness ==
    /\ ret.op = "ptrToString"
    /\ ret.ptr = <<255, 65535>>
    /\ ret.len = 65536
    /\ ~ret.held
    /\ ret.url = U_max


\* The error returns of LoadRules, read off the document: the decoder rejects
\* an entry, a template does not parse, or a non-empty pattern does not compile.
DocumentFails(cfg) ==
    \E i \in 1..Len(cfg) :
        \/ ~cfg[i].decodeOK
        \/ \E j \in 1..Len(cfg[i].Templates) :
               \/ ~cfg[i].Templates[j].templateOK
               \/ cfg[i].Templates[j].Pattern # <<>> /\ ~cfg[i].Templates[j].patternOK

\* rules is the decoded document cfg with every template compiled and every
\* non-empty pattern compiled
IsCompiledSetOf(rules, cfg) ==
    /\ Len(rules) = Len(cfg)
    /\ \A i \in 1..Len(cfg) :
        /\ rules[i].Domain = cfg[i].Domain
        /\ Len(rules[i].Templates) = Len(cfg[i].Templates)
        /\ \A j \in 1..Len(cfg[i].Templates) :
            /\ rules[i].Templates[j].Pattern = cfg[i].Templates[j].Pattern
            /\ rules[i].Templates[j].QueryParams = cfg[i].Templates[j].QueryParams
            /\ rules[i].Templates[j].Template = cfg[i].Templates[j].Template
            /\ rules[i].Templates[j].Transform = cfg[i].Templates[j].Transform
            /\ rules[i].Templates[j]._Template = cfg[i].Templates[j].Template
            /\ rules[i].Templates[j]._Regex.nil = (cfg[i].Templates[j].Pattern = <<>>)
            /\ rules[i].Templates[j]._Regex.elems = cfg[i].Templates[j].Pattern

\* C15: a load is all-or-nothing. A LoadRules call on a document that fails
\* (undecodable, or a template or a non-empty pattern of any site does not
\* compile) leaves the process-wide rule set exactly as it was; a call that
\* succeeds leaves exactly the decoded set, every template and every non-empty
\* pattern compiled.
C15_LoadAllOrNothing ==
    [][\A cfg \in Configs :
          (\/ JsMain(cfg)
           \/ wasmLoadConfig(cfg)
           \/ \E u \in RawURLs : CliMain(cfg, u))
          => IF DocumentFails(cfg) THEN Rules' = Rules
             ELSE IsCompiledSetOf(Rules', cfg)]_vars

\* a load that failed on a module that already held a rule set, which it kept
C15_Witness ==
    /\ ret.op = "LoadConfig"
    /\ ret.failed
    /\ status = "panicked"
    /\ Rules # <<>>


(***************************************************************************)
(* LoadRules and a signature call as two callers run them side by side.    *)
(* LoadRules builds cfg, a local, and then stores its address in Rules, a  *)
(* plain package variable: no mutex, no sync/atomic.  processURL loads     *)
(* Rules once, in the range statement.  When the store and the load are    *)
(* made by calls that overlap nothing orders them, and the load may meet   *)
(* the pointer stored before, or the new pointer with the writes that      *)
(* built cfg visible up to any point of the two loops.                     *)
(***************************************************************************)
\* a *template.Template that is nil
NilTemplate == << [lit |-> <<>>, field |-> "<nil>"] >>

\* a template rule as yaml.Unmarshal leaves it: nothing compiled yet
Decoded(rule) ==
    [Pattern |-> rule.Pattern, QueryParams |-> rule.QueryParams,
     Template |-> rule.Template, Transform |-> rule.Transform,
     _Template |-> NilTemplate, _Regex |-> NoRegex]

\* cfg when the loops of LoadRules stand before template j of site i
PartialSet(cfg, i, j) ==
    [s \in 1..Len(cfg) |->
        [Domain |-> cfg[s].Domain,
         Templates |-> [t \in 1..Len(cfg[s].Templates) |->
            IF s < i \/ (s = i /\ t < j) THEN Compile(cfg[s].Templates[t])
            ELSE Decoded(cfg[s].Templates[t])]]]

Positions(cfg) ==
    UNION {{<<i, j>> : j \in 1..Len(cfg[i].Templates)} : i \in 1..Len(cfg)}
        \cup {<<Len(cfg) + 1, 1>>}

\* what the load of Rules in call k may meet
Visible(k) ==
    {Rules} \cup (IF k.raced
                  THEN {k.old} \cup {PartialSet(k.new, q[1], q[2]) : q \in Positions(k.new)}
                  ELSE {})

\* processURL over the rule set it met; formatURL on a rule whose _Template
\* is nil dereferences the nil pointer
NilDereference == [kind |-> "panic", arg |-> <<>>, n |-> 0]

Observe(seen, inputURL) ==
    Only({ IF p.found /\ seen[p.site].Templates[p.tmpl]._Template = NilTemplate
           THEN [NotFound EXCEPT !.err = NilDereference]
           ELSE p
           : p \in {processURL(seen, inputURL)} })

\* LoadRules, yaml.Unmarshal(data, &cfg)
LoadRulesDecode(c, cfg) ==
    /\ status = "ready"
    /\ calls[c].pc = "idle"
    /\ IF \E i \in 1..Len(cfg) : ~cfg[i].decodeOK
       THEN /\ status' = "panicked"
            /\ ret' = [NoRet EXCEPT !.op = "LoadConfig", !.failed = TRUE]
            /\ calls' = calls
       ELSE /\ calls' = [calls EXCEPT ![c] =
                            [NoCall EXCEPT !.op = "LoadRules", !.pc = "compile",
                                           !.cfg = cfg, !.i = 1, !.j = 1]]
            /\ UNCHANGED <<status, ret>>
    /\ UNCHANGED <<Rules, memoryArena, heap, pin, delivered>>

\* LoadRules, one turn of the inner loop: template j of site i
LoadRulesCompile(c) ==
    /\ status = "ready"
    /\ calls[c].pc = "compile"
    /\ \E k \in {calls[c]} : \E rule \in {k.cfg[k.i].Templates[k.j]} :
           IF ~rule.templateOK \/ (rule.Pattern # <<>> /\ ~rule.patternOK)
           THEN /\ status' = "panicked"
                /\ ret' = [NoRet EXCEPT !.op = "LoadConfig", !.failed = TRUE]
                /\ calls' = [calls EXCEPT ![c] = NoCall]
           ELSE /\ calls' = [calls EXCEPT ![c] =
                                IF k.j < Len(k.cfg[k.i].Templates)
                                THEN [k EXCEPT !.j = k.j + 1]
                                ELSE IF k.i < Len(k.cfg)
                                THEN [k EXCEPT !.i = k.i + 1, !.j = 1]
                                ELSE [k EXCEPT !.i = k.i + 1, !.j = 1, !.pc = "publish"]]
                /\ UNCHANGED <<status, ret>>
    /\ UNCHANGED <<Rules, memoryArena, heap, pin, delivered>>

\* LoadRules, Rules = &cfg; return nil.  Every signature call in flight has
\* one more published version next to it, and one that has not yet loaded
\* Rules will load it unordered with this store.
LoadRulesPublish(c) ==
    /\ status = "ready"
    /\ calls[c].pc = "publish"
    /\ \E new \in {PartialSet(calls[c].cfg, calls[c].i, calls[c].j)} :
           /\ Rules' = new
           /\ calls' = [d \in Callers |->
                  IF d = c THEN NoCall
                  ELSE IF calls[d].op # "GetSignature" THEN calls[d]
                  ELSE IF calls[d].pc = "range"
                  THEN [calls[d] EXCEPT !.versions = @ \cup {new}, !.raced = TRUE,
                                        !.old = Rules, !.new = calls[c].cfg]
                  ELSE [calls[d] EXCEPT !.versions = @ \cup {new}]]
    /\ ret' = [NoRet EXCEPT !.op = "LoadConfig"]
    /\ UNCHANGED <<status, memoryArena, heap, pin, delivered>>

\* a signature call enters processURL
GetSignatureEnter(c, inputURL) ==
    /\ status = "ready"
    /\ calls[c].pc = "idle"
    /\ calls' = [calls EXCEPT ![c] =
                    [NoCall EXCEPT !.op = "GetSignature", !.pc = "range",
                                   !.url = inputURL, !.versions = {Rules}]]
    /\ UNCHANGED <<Rules, status, ret, memoryArena, heap, pin, delivered>>

\* processURL, for _, site := range Rules.Sites: the one load of Rules, and
\* the two loops over what it met
GetSignatureRange(c) ==
    /\ status = "ready"
    /\ calls[c].op = "GetSignature"
    /\ calls[c].pc = "range"
    /\ \E seen \in Visible(calls[c]) : \E p \in {Observe(seen, calls[c].url)} :
           calls' = [calls EXCEPT ![c] = [@ EXCEPT !.pc = "return", !.seen = seen, !.p = p]]
    /\ UNCHANGED <<Rules, status, ret, memoryArena, heap, pin, delivered>>

\* the signature call returns (or panics on the nil template)
GetSignatureReturn(c) ==
    /\ status = "ready"
    /\ calls[c].op = "GetSignature"
    /\ calls[c].pc = "return"
    /\ \E k \in {calls[c]} :
           /\ ret' = [NoRet EXCEPT !.op = "GetSignature", !.url = k.url, !.p = k.p,
                           !.err = k.p.err, !.failed = (k.p.err # NoError),
                           !.sig = IF k.p.err = NoError THEN generateSignature(k.p.url)
                                   ELSE EmptyText]
           /\ status' = IF k.p.err = NilDereference THEN "panicked" ELSE status
    /\ calls' = [calls EXCEPT ![c] = NoCall]
    /\ UNCHANGED <<Rules, memoryArena, heap, pin, delivered>>

ReloadConfigs == {CfgExample, CfgOverlap, CfgBadTemplate, CfgUndecodable}
ReloadURLs    == {U_path, U_pageq}

NextReload ==
    \/ \E cfg \in {CfgExample, CfgOverlap} : JsMain(cfg)
    \/ \E c \in Callers, cfg \in ReloadConfigs : LoadRulesDecode(c, cfg)
    \/ \E c \in Callers : LoadRulesCompile(c)
    \/ \E c \in Callers : LoadRulesPublish(c)
    \/ \E c \in Callers, u \in ReloadURLs : GetSignatureEnter(c, u)
    \/ \E c \in Callers : GetSignatureRange(c)
    \/ \E c \in Callers : GetSignatureReturn(c)

SpecReload == Init /\ [][NextReload]_vars

NextBoot ==
    \/ \E cfg \in Configs : JsMain(cfg)
    \/ \E cfg \in Configs : WasiMain(cfg)
    \/ \E cfg \in Configs, u \in RawURLs : CliMain(cfg, u)
    \/ \E u \in RawURLs : hashUrl(u)
    \/ \E a \in Addrs : GetSignature(NullPtr, 0, a)

SpecBoot == Init /\ [][NextBoot]_vars

\* var Rules *Config is nil: no LoadRules call has succeeded
NoRuleSet == Rules = <<>>

Terminated == status \in {"panicked", "exited"}

SelectedTemplate(s, j) ==
    /\ FirstSuffixSite(s)
    /\ PatternMatches(RetParsed, Rules[s].Templates[j])
    /\ \A h \in 1..(j - 1) : ~PatternMatches(RetParsed, Rules[s].Templates[h])

\* C18: the extraction error is surfaced.  When the template selected for a
\* URL yields an empty field mapping, the end-to-end call reports the
\* "no fields extracted" error to its caller.
C18_ExtractionErrorSurfaced ==
    (ret.op \in {"getSignature", "processURL"} /\ RetNormOK) =>
        \A s \in 1..Len(Rules) : \A j \in 1..Len(Rules[s].Templates) :
            (SelectedTemplate(s, j)
             /\ extractFields(RetParsed, Rules[s].Templates[j]).err # NoError)
                => /\ ret.failed
                   /\ ret.err = NoFields(RetParsed)


(***************************************************************************)
(* formatURL on its own: every template of the loaded rule set, executed   *)
(* on every non-empty field mapping over the field names the rules use.    *)
(***************************************************************************)
FieldNames  == {"Section", "ID", "Page", "ArticleID"}
FieldValues == {S_42, S_News}
FieldMaps   == UNION {[D -> FieldValues] : D \in (SUBSET FieldNames) \ {{}}}

InitFormat ==
    /\ \E cfg \in {CfgOverlap, CfgTwoSites, CfgIltalehti} : Rules = LoadRules(cfg).sites
    /\ status = "formatting"
    /\ ret = NoRet
    /\ memoryArena = EmptyMap
    /\ heap = EmptyMap
    /\ pin = NoPin
    /\ calls = NoCalls
    /\ delivered = {}

\* formatURL(u, rule, fields) for template j of site s
CallFormatURL(s, j, fields) ==
    /\ status = "formatting"
    /\ \E f \in {formatURL(U_path, Rules[s].Templates[j], fields)} :
           ret' = [NoRet EXCEPT !.op = "formatURL", !.s = s, !.j = j, !.fields = fields,
                       !.p = [NotFound EXCEPT !.url = f.url, !.err = f.err],
                       !.err = f.err, !.failed = (f.err # NoError)]
    /\ UNCHANGED <<Rules, status, memoryArena, heap, pin, calls, delivered>>

NextFormat ==
    \E s \in 1..Len(Rules) : \E j \in 1..Len(Rules[s].Templates) : \E fields \in FieldMaps :
        CallFormatURL(s, j, fields)

SpecFormat == InitFormat /\ [][NextFormat]_vars

\* What one piece of a template renders to: its text, the mapped value of its
\* field, or nothing when the field is not in the mapping.
PieceText(piece, fields) ==
    IF piece.field = "" THEN piece.lit
    ELSE IF piece.field \in DOMAIN fields THEN fields[piece.field]
    ELSE <<>>

RECURSIVE Substituted(_, _, _)
Substituted(pieces, fields, n) ==
    IF n = 0 THEN <<>>
    ELSE Substituted(pieces, fields, n - 1) \o PieceText(pieces[n], fields)

RetTemplate == Rules[ret.s].Templates[ret.j]._Template

InFlight == {calls[c].ptr : c \in {d \in Callers : calls[d].pc \in {"store", "return"}}}

\* Malloc: the guard, make([]byte, size), ptr = &buf[0]
MallocAlloc(c, size, a) ==
    /\ status = "ready"
    /\ calls[c].pc = "idle"
    /\ IF MallocRejects(size)
       THEN /\ ret' = [NoRet EXCEPT !.op = "Malloc", !.len = size]
            /\ UNCHANGED <<heap, calls>>
       ELSE /\ a \in Addrs \ (DOMAIN heap \cup DOMAIN memoryArena)
            /\ heap' = Store(heap, a, UrlCell(ZeroBytes(size)))
            /\ calls' = [calls EXCEPT ![c] =
                            [NoCall EXCEPT !.op = "Malloc", !.pc = "store",
                                           !.ptr = a, !.len = size]]
            /\ ret' = ret
    /\ UNCHANGED <<Rules, status, memoryArena, pin, delivered>>

\* GetSignature up to stringToPtr's ptr = &bytes[0]
GetSignatureAlloc(c, urlPtr, urlLen, a) ==
    /\ status = "ready"
    /\ calls[c].pc = "idle"
    /\ urlPtr = NullPtr \/ urlPtr \in DOMAIN heap
    /\ a \in Addrs \ (DOMAIN heap \cup DOMAIN memoryArena)
    /\ \E url \in {ptrToString(urlPtr, urlLen)} :
       \E g \in {getSignature(Rules, url)} :
       \E out \in {IF g.err # NoError THEN ErrText(g.err) ELSE g.sig} :
       \E r \in {stringToPtr(out, a)} :
           /\ r.stored
           /\ heap' = Store(heap, r.ptr, TextCell(out))
           /\ calls' = [calls EXCEPT ![c] =
                           [NoCall EXCEPT !.op = "GetSignature", !.pc = "store",
                                          !.ptr = r.ptr, !.len = r.len,
                                          !.failed = (g.err # NoError)]]
    /\ UNCHANGED <<Rules, status, ret, memoryArena, pin, delivered>>

\* memoryArena.Store(ptr, buf), in Malloc and in stringToPtr
ArenaStore(c) ==
    /\ status = "ready"
    /\ calls[c].pc = "store"
    /\ memoryArena' = Store(memoryArena, calls[c].ptr, calls[c].len)
    /\ calls' = [calls EXCEPT ![c] = [@ EXCEPT !.pc = "return"]]
    /\ UNCHANGED <<Rules, status, ret, heap, pin, delivered>>

\* return ptr (Malloc) / return the packed word (GetSignature)
ArenaReturn(c) ==
    /\ status = "ready"
    /\ calls[c].pc = "return"
    /\ calls[c].op \in {"Malloc", "GetSignature"}
    /\ \E k \in {calls[c]} :
           ret' = [NoRet EXCEPT !.op = k.op, !.rptr = k.ptr, !.rlen = k.len,
                       !.failed = k.failed,
                       !.packed = IF k.op = "GetSignature"
                                  THEN Packed(k.ptr, k.len, k.failed)
                                  ELSE <<0, 0, 0, 0>>]
    /\ delivered' = delivered \cup {calls[c].ptr}
    /\ calls' = [calls EXCEPT ![c] = NoCall]
    /\ UNCHANGED <<Rules, status, memoryArena, heap, pin>>

\* Free(ptr): memoryArena.Delete(ptr)
FreeDelete(c, ptr) ==
    /\ status = "ready"
    /\ calls[c].pc = "idle"
    /\ ptr \notin InFlight
    /\ memoryArena' = Delete(memoryArena, ptr)
    /\ heap' = Delete(heap, ptr)
    /\ delivered' = delivered \ {ptr}
    /\ ret' = [NoRet EXCEPT !.op = "Free", !.ptr = ptr,
                    !.held = (ptr \in DOMAIN memoryArena)]
    /\ UNCHANGED <<Rules, status, pin, calls>>

ArenaSizes == {0, URLBytes(U_path), maxAllocSize + 1}

NextArena ==
    \/ WasiMain(CfgOverlap)
    \/ \E c \in Callers, size \in ArenaSizes, a \in Addrs : MallocAlloc(c, size, a)
    \/ \E c \in Callers, g \in CallArgs, a \in Addrs : GetSignatureAlloc(c, g[1], g[2], a)
    \/ \E c \in Callers : ArenaStore(c)
    \/ \E c \in Callers : ArenaReturn(c)
    \/ \E c \in Callers, ptr \in Addrs \cup {NullPtr} : FreeDelete(c, ptr)

SpecArena == Init /\ [][NextArena]_vars

Quiescent == \A c \in Callers : calls[c].pc = "idle"

PipelineOps == {"processURL", "extractFields", "getSignature", "hashUrl", "wasmGetSignature"}

\* C22: rule-set immutability.  No signature call changes the published rule
\* set: sites, templates, their order and their compiled patterns and
\* templates are after the call what they were before it, and the call
\* changes no other shared state (the arena, the memory, the module's life;
\* a wasmGetSignature that panics ends the module and changes nothing else).
C22_RuleSetImmutable ==
    [][ret'.op \in PipelineOps =>
          /\ Rules' = Rules
          /\ memoryArena' = memoryArena
          /\ heap' = heap
          /\ calls' = calls
          /\ status' # status => (ret'.op = "wasmGetSignature" /\ ret'.failed)]_vars

\* a call that went through the second site of a two-site rule set and
\* returned a signature, the rule set still the loaded one
C22_Witness ==
    /\ ret.op = "getSignature"
    /\ ~ret.failed
    /\ ret.p.site = 2
    /\ IsCompiledSetOf(Rules, CfgTwoSites)


\* Template j of site s matches the URL of the last call and extracts nothing.
Skipped(s, j) ==
    /\ HasSuffix(RetHost, Rules[s].Domain)
    /\ PatternMatches(RetParsed, Rules[s].Templates[j])
    /\ extractFields(RetParsed, Rules[s].Templates[j]).err # NoError

\* C23: first usable match.  A template of a matching site whose pattern
\* matches (or is absent) but whose extraction yields no fields is skipped and
\* the scan goes on: the URL returned is rendered from a template that matches
\* and yields a non-empty mapping and that no such template of its site
\* precedes, a skipped template followed by a usable one never makes the call
\* fail, and the no-matching-rule error is returned exactly when no template
\* of any matching site is usable.
C23_FirstUsableMatch ==
    (ret.op \in {"processURL", "getSignature"} /\ RetNormOK) =>
        /\ ret.p.found =>
              /\ HasSuffix(RetHost, Rules[ret.p.site].Domain)
              /\ Usable(RetParsed, Rules[ret.p.site].Templates[ret.p.tmpl])
              /\ \A h \in 1..(ret.p.tmpl - 1) :
                     ~Usable(RetParsed, Rules[ret.p.site].Templates[h])
              /\ ret.p.url = Rendered(RetParsed, Rules[ret.p.site].Templates[ret.p.tmpl])
              /\ ret.err = NoError
        /\ \A s \in 1..Len(Rules) : \A h, j \in 1..Len(Rules[s].Templates) :
              (h < j /\ Skipped(s, h) /\ Usable(RetParsed, Rules[s].Templates[j]))
                  => ret.p.found
        /\ ~ret.p.found <=> UsableSites = {}
        /\ ~ret.p.found => ret.err = NoMatch(RetHost)

\* the call returned the output of a template that follows, in its site, one
\* that matched and extracted nothing
C23_Witness ==
    /\ ret.op = "getSignature"
    /\ ret.p.found
    /\ ~ret.failed
    /\ \E h \in 1..(ret.p.tmpl - 1) : Skipped(ret.p.site, h)


\* Template j of site s is the first thing the scan can return from for the
\* URL of the last call: the site's domain is a suffix of the host, and no
\* template of an earlier site, and no earlier template of this site, is
\* usable.
NothingUsableBefore(s, j) ==
    /\ HasSuffix(RetHost, Rules[s].Domain)
    /\ \A h \in 1..(s - 1) : h \notin UsableSites
    /\ \A h \in 1..(j - 1) : ~Usable(RetParsed, Rules[s].Templates[h])

Supplied(parsed, rule, F) ==
    IF F \in DOMAIN rule.QueryParams /\ QueryGet(parsed.query, rule.QueryParams[F]) # <<>>
    THEN QueryGet(parsed.query, rule.QueryParams[F])
    ELSE IF F \in DOMAIN RegexFields(parsed, rule) THEN RegexFields(parsed, rule)[F]
    ELSE <<>>

RuleFieldNames(rule) ==
    DOMAIN rule.QueryParams \cup DOMAIN rule.Transform
        \cup {rule.Pattern[k].group : k \in {x \in 1..Len(rule.Pattern) : rule.Pattern[x].group # ""}}

\* C25: the transform runs last.  extractFields returns exactly the fields the
\* path or the query supplied; a field whose transform is lowercase holds the
\* lower-cased supplied value, whichever source supplied it (the query value
\* when both did); a transform on a field nothing supplied creates no entry;
\* a field with any other transform action, or none, holds the supplied value
\* as it is.
C25_TransformRunsLast ==
    ret.op = "extractFields" =>
        LET rule == Rules[ret.s].Templates[ret.j]
        IN  /\ DOMAIN ret.fields =
                  {F \in RuleFieldNames(rule) : Supplied(RetParsed, rule, F) # <<>>}
            /\ \A F \in DOMAIN ret.fields :
                  ret.fields[F] =
                      IF F \in DOMAIN rule.Transform /\ rule.Transform[F] = "lowercase"
                      THEN ToLower(Supplied(RetParsed, rule, F))
                      ELSE Supplied(RetParsed, rule, F)
            /\ ret.failed <=> DOMAIN ret.fields = {}

\* one extraction with the three cases: a query value with capitals that
\* overwrote the path capture and came out lower-cased, a field with another
\* action that kept its capitals, and a transform on a field that is absent
C25_Witness ==
    /\ ret.op = "extractFields"
    /\ LET rule == Rules[ret.s].Templates[ret.j]
       IN  /\ \E F \in BothSources(RetParsed, rule) :
                  /\ rule.Transform[F] = "lowercase"
                  /\ ToLower(Supplied(RetParsed, rule, F)) # Supplied(RetParsed, rule, F)
                  /\ ret.fields[F] = ToLower(QueryGet(RetParsed.query, rule.QueryParams[F]))
           /\ \E F \in DOMAIN ret.fields :
                  /\ F \in DOMAIN rule.Transform
                  /\ rule.Transform[F] # "lowercase"
                  /\ ToLower(ret.fields[F]) # ret.fields[F]
           /\ \E F \in DOMAIN rule.Transform : F \notin DOMAIN ret.fields


(***************************************************************************)
(* Surface forms of one URL                                                *)
(***************************************************************************)
ToUpperChar(c) ==
    IF \E i \in 1..Len(LowerChars) : LowerChars[i] = c
    THEN UpperChars[CHOOSE i \in 1..Len(LowerChars) : LowerChars[i] = c]
    ELSE c

ToUpper(s) == [i \in 1..Len(s) |-> ToUpperChar(s[i])]

Reverse(q) == [i \in 1..Len(q) |-> q[Len(q) + 1 - i]]

\* https://example.com/News/a/42?a=x&id=7, the plain spelling of U_messy
U_messy_plain ==
    URL(S_https, example_com, <<>>, <<S_News, S_a, S_42>>, << <<S_a, S_x>>, <<S_id, S_7>> >>)

\* The raw URLs that differ from u in one surface form only: the letter case of
\* scheme and host, the scheme's default port written out, a "." or an "x/.."
\* in front of the path, the query parameters in the opposite order.
SurfaceVariants(u) ==
    {[u EXCEPT !.scheme = ToUpper(@)], [u EXCEPT !.host = ToUpper(@)],
     [u EXCEPT !.query = Reverse(@)]}
    \cup (IF u.port = <<>> /\ ToLower(u.scheme) = S_https THEN {[u EXCEPT !.port = S_443]}
          ELSE IF u.port = <<>> /\ ToLower(u.scheme) = S_http THEN {[u EXCEPT !.port = S_80]}
          ELSE {})
    \cup (IF u.path = <<>> THEN {}
          ELSE {[u EXCEPT !.path = <<Dot>> \o @], [u EXCEPT !.path = <<S_x, DotDot>> \o @]})

C27_AllocReadCompatible ==
    (ret.op = "GetSignature" /\ ret.written) =>
        /\ 1 <= ret.len /\ ret.len <= maxAllocSize
        /\ ret.len = memoryArena[ret.ptr]
        /\ ret.url = ret.src


\* C28: Free(address) removes any registered entry, whichever call registered
\* it: after a Free of an address Malloc registered and after a Free of an
\* address GetSignature registered for a result or an error text, the address
\* is unregistered and the arena is the old one without that entry.
C28_FreeIgnoresKind ==
    [][(ret'.op = "Free" /\ ret'.kind \in {"input", "result"}) =>
          /\ ret'.ptr \in DOMAIN memoryArena
          /\ ret'.ptr \notin DOMAIN memoryArena'
          /\ DOMAIN memoryArena' = DOMAIN memoryArena \ {ret'.ptr}
          /\ \A a \in DOMAIN memoryArena' : memoryArena'[a] = memoryArena[a]
          /\ status' = "ready"]_vars

C28_Witness ==
    /\ ret.op = "Free"
    /\ ret.kind = "result"
    /\ ret.held
    /\ ret.ptr \notin DOMAIN memoryArena
    /\ \E a \in DOMAIN memoryArena : ~heap[a].isText


\* The arguments of the last GetSignature call that ptrToString refuses.
InvalidBoundaryInput ==
    \/ ret.len = 0
    \/ ret.len > maxUrlLength
    \/ ret.ptr = NullPtr
    \/ ret.ptr[1] > 255

NoEmptyDomain == \A s \in 1..Len(Rules) : Rules[s].Domain # <<>>

\* C29: a GetSignature call with length 0, a length above 64 KiB, address 0
\* or an address above 0xFFFFFF, made when no site has an empty domain, signs
\* the empty URL: the module goes on serving, the packed result has the error
\* bit set, and its address and length are those of a registered buffer that
\* holds the text of the error; it is never a success result.
C29_InvalidInputIsError ==
    (ret.op = "GetSignature" /\ InvalidBoundaryInput /\ NoEmptyDomain) =>
        /\ status = "ready"
        /\ ret.url = EmptyURL
        /\ ret.err = NoMatch(<<>>)
        /\ DecodeErr(ret.packed)
        /\ DecodePtr(ret.packed) # NullPtr
        /\ DecodePtr(ret.packed) \in DOMAIN memoryArena
        /\ memoryArena[DecodePtr(ret.packed)] = DecodeLen(ret.packed)
        /\ DecodeLen(ret.packed) = TextLen(ErrText(ret.err))
        /\ heap[DecodePtr(ret.packed)].isText
        /\ DecodedText = ErrText(ret.err)

\* the host filled a buffer above 0xFFFFFF with a URL a rule matches and
\* passed it with its true length
C29_Witness ==
    /\ ret.op = "GetSignature"
    /\ ret.ptr[1] > 255
    /\ ret.written
    /\ 0 < ret.len /\ ret.len <= maxUrlLength
    /\ getSignature(Rules, ret.src).err = NoError
    /\ NoEmptyDomain
    /\ DecodeErr(ret.packed)

\* The other three refusals, each with the remaining arguments in range.
C29_SeenLengthZero == ret.op = "GetSignature" /\ ret.len = 0 /\ ret.ptr # NullPtr /\ DecodeErr(ret.packed)
C29_SeenTooLong    == ret.op = "GetSignature" /\ ret.len > maxUrlLength /\ ret.ptr[1] <= 255 /\ DecodeErr(ret.packed)
C29_SeenNull       == ret.op = "GetSignature" /\ ret.ptr = NullPtr /\ ret.len > 0 /\ DecodeErr(ret.packed)


\* The test of src/wasm.go:286 for site s on the raw URL raw.
SiteTested(s, raw) == HasSuffix(HostOf(normalizeURL(raw).url), Rules[s].Domain)

HasColon(d) == \E i \in 1..Len(d) : d[i] = ":"

DefaultPort(scheme) == IF ToLower(scheme) = S_http THEN S_80 ELSE S_443

\* C30: the host that is matched against the domains carries an explicit
\* non-default port.  For the URL of a processURL call and every site whose
\* non-empty, port-less domain is a suffix of the URL's host name: with port
\* 8443 the site's test fails, the scan never returns from that site, and that
\* site alone answers "no matching rule found for host <name>:8443"; with no
\* port and with the scheme's default port the test passes and the site gives
\* the same result for both.  The call itself does not return from such a site
\* when its own URL keeps a port after normalisation.
C30_PortIsPartOfHost ==
    (ret.op = "processURL" /\ ret.url.valid /\ ret.url.scheme # <<>>) =>
        LET u    == ret.url
            bare == [u EXCEPT !.port = <<>>]
            dflt == [u EXCEPT !.port = DefaultPort(u.scheme)]
            odd  == [u EXCEPT !.port = S_8443]
        IN  \A s \in 1..Len(Rules) :
                (/\ Rules[s].Domain # <<>>
                 /\ ~HasColon(Rules[s].Domain)
                 /\ HasSuffix(ToLower(u.host), Rules[s].Domain)) =>
                    /\ SiteTested(s, bare)
                    /\ SiteTested(s, dflt)
                    /\ ~SiteTested(s, odd)
                    /\ processURL(Rules, odd).site # s
                    /\ processURL(<<Rules[s]>>, odd).err
                           = NoMatch(ToLower(u.host) \o <<":">> \o S_8443)
                    /\ processURL(<<Rules[s]>>, dflt) = processURL(<<Rules[s]>>, bare)
                    /\ RetParsed.port # <<>> => (ret.p.site # s /\ ~SiteTested(s, u))
                    /\ RetParsed.port = <<>> => SiteTested(s, u)

\* https://example.com:8443/x finds no rule where https://example.com/x and
\* https://example.com:443/x find one
C30_Witness ==
    /\ ret.op = "processURL"
    /\ ret.url = U_port
    /\ ret.err = NoMatch(example_com \o <<":">> \o S_8443)
    /\ processURL(Rules, [U_port EXCEPT !.port = <<>>]).found
    /\ processURL(Rules, [U_port EXCEPT !.port = S_443]).found

====
